---- MODULE Spec2Model ----
(***************************************************************************)
(* The product API of src/src: the five handlers of                        *)
(* controllers/product.controller.ts over the Product collection declared  *)
(* in models/product.model.ts.  The collection is the only shared state;   *)
(* every handler is an async function whose store calls are the atomic     *)
(* steps.  Strings are sequences of one-character strings, so that trim,   *)
(* Number() and the regular-expression filters are computed, not assumed.  *)
(***************************************************************************)
EXTENDS Integers, Sequences, FiniteSets, TLC

VARIABLES
  store,     \* the Product collection: a set of documents
  nextId,    \* the next ObjectId the driver generates (fresh, never reused)
  clock,     \* Date.now(), in ticks
  deleted,   \* history: the ids a DELETE has answered 204 for
  acks,      \* history: per id, the 204s of the current run of DELETE requests
  listReq,   \* the getProducts request suspended between find and countDocuments
  resp       \* the last response sent

vars == <<store, nextId, clock, deleted, acks, listReq, resp>>

(***************************************************************************)
(* Bounds of the exploration.                                              *)
(***************************************************************************)
MaxIds == 2        \* ObjectIds the driver generates: 1..MaxIds
MaxClock == 1      \* the clock runs 0..MaxClock
MaxDebt == 1       \* $inc is explored down to -MaxDebt
MaxListed == 11    \* records created in the runs that list with the defaults

(***************************************************************************)
(* JSON values of req.body, req.params and req.query, tagged by their      *)
(* JavaScript type.  A string is a sequence of one-character strings.      *)
(***************************************************************************)
Undef == [t |-> "undefined"]          \* an absent key
Str(s) == [t |-> "string", v |-> s]
Num(n) == [t |-> "number", v |-> n]
Bool(b) == [t |-> "boolean", v |-> b]
Obj(r) == [t |-> "object", v |-> r]
NaN == [t |-> "NaN"]                  \* Number() of a string that is no numeral
NullDoc == [t |-> "null"]             \* what a query that matched nothing resolves to

\* An ObjectId is written i >= 0 (it stands for its 24-digit hex string);
\* BadId is a string that is no ObjectId.
BadId == -1
ForeignId == 0                        \* a well-formed id the driver never generated
ObjectIds == 0..MaxIds
PathIds == ObjectIds \cup {BadId}
FutureDate == MaxClock + 1            \* a date later than every clock value explored

Whitespace == {" "}
Digits == <<"0", "1", "2", "3", "4", "5", "6", "7", "8", "9">>

RECURSIVE TrimLeft(_)
TrimLeft(s) ==
  IF s # <<>> /\ Head(s) \in Whitespace THEN TrimLeft(Tail(s)) ELSE s

RECURSIVE TrimRight(_)
TrimRight(s) ==
  IF s # <<>> /\ s[Len(s)] \in Whitespace
  THEN TrimRight(SubSeq(s, 1, Len(s) - 1)) ELSE s

\* the `trim: true` setter of a String path
Trim(s) == TrimRight(TrimLeft(s))

IsDigit(c) == c \in {"0", "1", "2", "3", "4", "5", "6", "7", "8", "9"}
DigitVal(c) == (CHOOSE k \in 1..10 : Digits[k] = c) - 1

RECURSIVE ParseDigits(_, _)
ParseDigits(s, acc) ==
  IF s = <<>> THEN acc ELSE ParseDigits(Tail(s), 10 * acc + DigitVal(Head(s)))

\* JavaScript Number(v) of a query value: a number is itself, "" is 0, a
\* decimal numeral (with an optional sign) is its value, anything else NaN.
Number(v) ==
  IF v.t = "number" THEN v
  ELSE IF v.t # "string" THEN NaN
  ELSE LET s == Trim(v.v)
           neg == s # <<>> /\ Head(s) = "-"
           d == IF neg THEN Tail(s) ELSE s
       IN  IF s = <<>> THEN Num(0)
           ELSE IF d # <<>> /\ \A k \in 1..Len(d) : IsDigit(d[k])
                THEN Num(IF neg THEN 0 - ParseDigits(d, 0) ELSE ParseDigits(d, 0))
                ELSE NaN

(***************************************************************************)
(* ProductSchema (models/product.model.ts).                                *)
(***************************************************************************)
NameMaxLength == 100

BodyKeys == {"_id", "name", "description", "price", "category", "inStock",
             "quantity", "createdAt", "updatedAt", "$inc"}
ClientFields == {"name", "description", "price", "category", "inStock", "quantity"}
StringPaths == {"name", "description", "category"}
NumberPaths == {"price", "quantity"}
RequiredPaths == {"name", "description", "price", "category", "quantity"}

NoBody == [k \in BodyKeys |-> Undef]

\* Mongoose's cast of a body value to the schema type of a path; the String
\* paths all carry the trim setter.  CastFail marks a CastError.
CastFail == [t |-> "CastError"]

CastPath(k, v) ==
  IF v.t = "undefined" THEN Undef
  ELSE IF k \in StringPaths
       THEN IF v.t = "string" THEN Str(Trim(v.v)) ELSE CastFail
  ELSE IF k \in NumberPaths
       THEN IF v.t = "number" THEN v
            ELSE IF v.t = "string" /\ Number(v).t = "number" /\ Trim(v.v) # <<>>
                 THEN Number(v) ELSE CastFail
  ELSE IF k = "inStock"
       THEN IF v.t = "boolean" THEN v ELSE CastFail
  ELSE IF k = "_id"
       THEN IF v.t = "number" /\ v.v >= 0 THEN v ELSE CastFail
  ELSE \* createdAt, updatedAt: Date
       IF v.t = "number" THEN v ELSE CastFail

\* The schema defaults: inStock true, quantity 0.
ApplyDefaults(b) ==
  [b EXCEPT !.inStock = IF @.t = "undefined" THEN Bool(TRUE) ELSE @,
            !.quantity = IF @.t = "undefined" THEN Num(0) ELSE @]

\* The validators of one path on an already cast value: the set of messages.
PathErrors(k, v) ==
  (IF v.t = "CastError" THEN {<<k, "Cast failed">>} ELSE {})
  \cup (IF k \in RequiredPaths
           /\ (v.t = "undefined" \/ (v.t = "string" /\ v.v = <<>>))
        THEN {<<k, "is required">>} ELSE {})
  \cup (IF k = "name" /\ v.t = "string" /\ Len(v.v) > NameMaxLength
        THEN {<<k, "Product name cannot be more than 100 characters">>} ELSE {})
  \cup (IF k \in NumberPaths /\ v.t = "number" /\ v.v < 0
        THEN {<<k, "cannot be negative">>} ELSE {})

SchemaPaths == ClientFields \cup {"_id", "createdAt", "updatedAt"}

\* new Product(productData): strict mode keeps the schema's paths only, each
\* cast to its type, with the defaults filled in.
NewProduct(b) ==
  ApplyDefaults([k \in BodyKeys |-> IF k \in SchemaPaths THEN CastPath(k, b[k]) ELSE Undef])

\* document.validate(), as save() runs it: the messages of every path.
ValidationErrors(p) == UNION {PathErrors(k, p[k]) : k \in SchemaPaths}

\* The stored document of a valid new Product: the driver's fresh ObjectId
\* unless the data names one, and the timestamps plugin's pre-save hook:
\* createdAt is set to now unless the document already carries one, and
\* updatedAt of a new document is its createdAt.
StampNew(p, id, now) ==
  LET created == IF p.createdAt.t = "undefined" THEN now ELSE p.createdAt.v
  IN  [_id |-> IF p._id.t = "undefined" THEN id ELSE p._id.v,
       name |-> p.name.v,
       description |-> p.description.v,
       price |-> p.price.v,
       category |-> p.category.v,
       inStock |-> p.inStock.v,
       quantity |-> p.quantity.v,
       createdAt |-> created,
       updatedAt |-> created]

HasId(coll, id) == \E d \in coll : d._id = id
DocOf(coll, id) == CHOOSE d \in coll : d._id = id

\* A lookup that takes the first document it meets, whatever its id.
FindById_Any(coll, id) == IF coll # {} THEN CHOOSE d \in coll : TRUE ELSE NullDoc

\* Model.findById(id)
FindById(coll, id) == IF HasId(coll, id) THEN DocOf(coll, id) ELSE NullDoc

(***************************************************************************)
(* Responses: the HTTP status and the JSON envelope.                       *)
(***************************************************************************)
NoResp == [op |-> "none", status |-> 0]
EmptyBody == [t |-> "empty"]
Success(data) == [status |-> "success", data |-> data]
Failure(message) == [status |-> "error", message |-> message]
ValidationFailure(errs) ==
  [status |-> "error", message |-> "Validation Error", errors |-> errs]
Reply(op, code, body) == [op |-> op, status |-> code, body |-> body]
\* the response to a request on /:id
ReplyTo(op, id, code, body) == [op |-> op, id |-> id, status |-> code, body |-> body]

\* A write that lands while a getProducts request is between its two store
\* calls is recorded on that request.
Interleave(req) == IF req.t = "counting" THEN [req EXCEPT !.interleaved = TRUE] ELSE req

(***************************************************************************)
(* createProduct (controller lines 5-36).                                  *)
(***************************************************************************)
\* product.save() of a new document: validation, then the insert, which the
\* unique index on _id refuses for an id already present.
Save(coll, p, id, now) ==
  LET errs == ValidationErrors(p)
      d == StampNew(p, id, now)
  IN  IF errs # {} THEN [error |-> "ValidationError", errors |-> errs]
      ELSE IF HasId(coll, d._id) THEN [error |-> "MongoServerError"]
      ELSE [error |-> "none", doc |-> d]

\* No DELETE of the current run has been answered 204.
NoAcks == [i \in ObjectIds |-> 0]

createProduct(b) ==
  LET p == NewProduct(b)
      r == Save(store, p, nextId, clock)
  IN  /\ acks' = NoAcks
      /\ IF r.error = "ValidationError"
         THEN /\ resp' = Reply("create", 400, ValidationFailure(r.errors))
              /\ UNCHANGED <<store, nextId, clock, deleted, listReq>>
         ELSE IF r.error # "none"
         THEN /\ resp' = Reply("create", 500, Failure("Failed to create product"))
              /\ UNCHANGED <<store, nextId, clock, deleted, listReq>>
         ELSE /\ store' = store \cup {r.doc}
              /\ nextId' = IF p._id.t = "undefined" THEN nextId + 1 ELSE nextId
              /\ listReq' = Interleave(listReq)
              /\ resp' = Reply("create", 201, Success(r.doc))
              /\ UNCHANGED <<clock, deleted>>

(***************************************************************************)
(* getProductById (controller lines 144-180).                              *)
(***************************************************************************)
\* A cast that takes every string for an ObjectId.
IsObjectId_Any(id) == TRUE

\* the cast of the :id parameter to ObjectId
IsObjectId(id) == id >= 0

getProductById(id) ==
  /\ resp' = IF ~IsObjectId(id)
             THEN ReplyTo("get", id, 400, Failure("Invalid product ID"))
             ELSE IF FindById(store, id) = NullDoc
             THEN ReplyTo("get", id, 404, Failure("Product not found"))
             ELSE ReplyTo("get", id, 200, Success(FindById(store, id)))
  /\ acks' = NoAcks
  /\ UNCHANGED <<store, nextId, clock, deleted, listReq>>

(***************************************************************************)
(* updateProduct (controller lines 183-234).                               *)
(***************************************************************************)
\* Mongoose's castUpdate of the body's plain keys into $set: the schema's
\* paths cast as on save; createdAt is immutable and dropped, updatedAt is
\* the timestamps plugin's.
UpdateSet(b) == [k \in ClientFields \cup {"_id"} |-> CastPath(k, b[k])]
SetKeys(set) == {k \in DOMAIN set : set[k].t # "undefined"}

\* the $inc operator of a body: the amount added to a Number path
IncOf(b, k) ==
  IF b["$inc"].t = "object" /\ k \in DOMAIN b["$inc"].v THEN b["$inc"].v[k] ELSE 0
IncKeys(b) == IF b["$inc"].t = "object" THEN DOMAIN b["$inc"].v ELSE {}

\* runValidators: the update validators run on the paths of $set only.
UpdateValidationErrors(set) == UNION {PathErrors(k, set[k]) : k \in SetKeys(set)}

\* An update that replaces the document: the client fields the body leaves
\* out fall back to their empty values.
ApplyUpdate_Replace(d, set, b, now) ==
  [k \in DOMAIN d |->
     IF k = "updatedAt" THEN now
     ELSE IF k \in SetKeys(set) THEN set[k].v
     ELSE IF k \in {"_id", "createdAt"} THEN d[k]
     ELSE IF k \in NumberPaths THEN 0
     ELSE IF k = "inStock" THEN TRUE
     ELSE <<>>]

\* An update in which the first writer of the price wins: a price that is no
\* longer the one the record was created with is not written again.
ApplyUpdate_FirstWins(d, set, b, now) ==
  [k \in DOMAIN d |->
     IF k = "updatedAt" THEN now
     ELSE IF k \in SetKeys(set) /\ (k # "price" \/ d.price = 1) THEN set[k].v
     ELSE d[k]]

\* the document after $set, $inc and the refreshed updatedAt
ApplyUpdate(d, set, b, now) ==
  [k \in DOMAIN d |->
     IF k = "updatedAt" THEN now
     ELSE IF k \in SetKeys(set) THEN set[k].v
     ELSE IF k \in NumberPaths THEN d[k] + IncOf(b, k)
     ELSE d[k]]

\* Model.findByIdAndUpdate(id, updateData, { new: true, runValidators: true }):
\* the casts and the update validators come before the store is asked.
FindByIdAndUpdate(coll, id, b, now) ==
  LET set == UpdateSet(b)
      errs == UpdateValidationErrors(set)
  IN  IF ~IsObjectId(id) \/ \E k \in DOMAIN set : set[k].t = "CastError"
      THEN [error |-> "CastError"]
      ELSE IF errs # {} THEN [error |-> "ValidationError", errors |-> errs]
      ELSE IF SetKeys(set) \cap IncKeys(b) # {}
      THEN [error |-> "MongoServerError"]      \* conflicting update operators
      ELSE IF ~HasId(coll, id) THEN [error |-> "none", doc |-> NullDoc]
      ELSE IF "_id" \in SetKeys(set) /\ set["_id"].v # id
      THEN [error |-> "MongoServerError"]      \* _id is immutable in the store
      ELSE [error |-> "none", doc |-> ApplyUpdate(DocOf(coll, id), set, b, now)]

updateProduct(id, b) ==
  LET r == FindByIdAndUpdate(store, id, b, clock)
  IN  /\ acks' = NoAcks
      /\ IF r.error = "ValidationError"
         THEN /\ resp' = ReplyTo("update", id, 400, ValidationFailure(r.errors))
              /\ UNCHANGED <<store, nextId, clock, deleted, listReq>>
         ELSE IF r.error = "CastError"
         THEN /\ resp' = ReplyTo("update", id, 400, Failure("Invalid product ID"))
              /\ UNCHANGED <<store, nextId, clock, deleted, listReq>>
         ELSE IF r.error # "none"
         THEN /\ resp' = ReplyTo("update", id, 500, Failure("Failed to update product"))
              /\ UNCHANGED <<store, nextId, clock, deleted, listReq>>
         ELSE IF r.doc = NullDoc
         THEN /\ resp' = ReplyTo("update", id, 404, Failure("Product not found"))
              /\ UNCHANGED <<store, nextId, clock, deleted, listReq>>
         ELSE /\ \A k \in NumberPaths : r.doc[k] >= 0 - MaxDebt
              /\ store' = (store \ {DocOf(store, id)}) \cup {r.doc}
              /\ listReq' = Interleave(listReq)
              /\ resp' = ReplyTo("update", id, 200, Success(r.doc))
              /\ UNCHANGED <<nextId, clock, deleted>>

(***************************************************************************)
(* deleteProduct (controller lines 237-270).                               *)
(***************************************************************************)
\* A delete that finds the document and leaves it in the collection.
FindByIdAndDelete_Keeps(coll, id) == coll

\* Model.findByIdAndDelete(id): the collection without the document found
FindByIdAndDelete(coll, id) == coll \ {d \in coll : d._id = id}

deleteProduct(id) ==
  IF ~IsObjectId(id)
  THEN /\ resp' = ReplyTo("delete", id, 400, Failure("Invalid product ID"))
       /\ UNCHANGED <<store, nextId, clock, deleted, acks, listReq>>
  ELSE IF FindById(store, id) = NullDoc
  THEN /\ resp' = ReplyTo("delete", id, 404, Failure("Product not found"))
       /\ UNCHANGED <<store, nextId, clock, deleted, acks, listReq>>
  ELSE /\ store' = FindByIdAndDelete(store, id)
       /\ deleted' = deleted \cup {id}
       /\ acks' = [acks EXCEPT ![id] = @ + 1]
       /\ listReq' = Interleave(listReq)
       /\ resp' = ReplyTo("delete", id, 204, EmptyBody)
       /\ UNCHANGED <<nextId, clock>>

(***************************************************************************)
(* getProducts (controller lines 39-141).                                  *)
(***************************************************************************)
DefaultPage == 1
DefaultLimit == 10

QueryKeys == {"category", "inStock", "minPrice", "maxPrice", "minQuantity",
              "maxQuantity", "name", "description", "sortBy", "sortOrder",
              "page", "limit"}
NoQuery == [k \in QueryKeys |-> Undef]

KeyCreatedAt == <<"c", "r", "e", "a", "t", "e", "d", "A", "t">>
KeyPrice == <<"p", "r", "i", "c", "e">>
KeyQuantity == <<"q", "u", "a", "n", "t", "i", "t", "y">>
WordTrue == <<"t", "r", "u", "e">>
WordAsc == <<"a", "s", "c">>
WordDesc == <<"d", "e", "s", "c">>

\* the destructuring of req.query with its defaults (lines 41-54)
Destructure(q) ==
  [q EXCEPT !.sortBy = IF @ = Undef THEN Str(KeyCreatedAt) ELSE @,
            !.sortOrder = IF @ = Undef THEN Str(WordDesc) ELSE @,
            !.page = IF @ = Undef THEN Num(DefaultPage) ELSE @,
            !.limit = IF @ = Undef THEN Num(DefaultLimit) ELSE @]

\* JavaScript truthiness of a query value: a non-empty string
Truthy(v) == v.t = "string" /\ v.v # <<>>

\* one range of the filter: { $gte, $lte }, each only when its bound is given
Range(lo, hi) ==
  IF lo = Undef /\ hi = Undef THEN Undef
  ELSE Obj([gte |-> IF lo # Undef THEN Number(lo) ELSE Undef,
            lte |-> IF hi # Undef THEN Number(hi) ELSE Undef])

\* the filter object (lines 56-103)
BuildFilter(q) ==
  [category |-> IF Truthy(q.category) THEN q.category ELSE Undef,
   inStock |-> IF q.inStock # Undef THEN Bool(q.inStock = Str(WordTrue)) ELSE Undef,
   price |-> Range(q.minPrice, q.maxPrice),
   quantity |-> Range(q.minQuantity, q.maxQuantity),
   name |-> IF Truthy(q.name) THEN q.name ELSE Undef,
   description |-> IF Truthy(q.description) THEN q.description ELSE Undef]

\* Mongoose casts $gte/$lte of a Number path with castNumber: NaN is a CastError.
RangeCasts(r) == r = Undef \/ (r.v.gte.t # "NaN" /\ r.v.lte.t # "NaN")
FilterCasts(f) == RangeCasts(f.price) /\ RangeCasts(f.quantity)

\* Range bounds taken as exclusive ($gt, $lt).
InRange_Exclusive(x, r) ==
  \/ r = Undef
  \/ /\ r.v.gte = Undef \/ x > r.v.gte.v
     /\ r.v.lte = Undef \/ x < r.v.lte.v

InRange(x, r) ==
  \/ r = Undef
  \/ /\ r.v.gte = Undef \/ x >= r.v.gte.v
     /\ r.v.lte = Undef \/ x <= r.v.lte.v

\* { $regex: pattern, $options: 'i' } for a pattern of letters and digits: the
\* pattern occurs somewhere in the text, letter case ignored.
Upper == <<"A", "B", "C", "D">>
Lower == <<"a", "b", "c", "d">>
ToLower(c) == IF \E k \in 1..Len(Upper) : Upper[k] = c
              THEN Lower[CHOOSE k \in 1..Len(Upper) : Upper[k] = c] ELSE c
LowerCase(s) == [k \in 1..Len(s) |-> ToLower(s[k])]
RegexMatches(pattern, text) ==
  \E o \in 0..(Len(text) - Len(pattern)) :
    LowerCase(SubSeq(text, o + 1, o + Len(pattern))) = LowerCase(pattern)

\* whether a document satisfies the filter: every key of it at once
Matches(d, f) ==
  /\ f.category = Undef \/ d.category = f.category.v
  /\ f.inStock = Undef \/ d.inStock = f.inStock.v
  /\ InRange(d.price, f.price)
  /\ InRange(d.quantity, f.quantity)
  /\ f.name = Undef \/ RegexMatches(f.name.v, d.name)
  /\ f.description = Undef \/ RegexMatches(f.description.v, d.description)

Find(coll, f) == {d \in coll : Matches(d, f)}

\* Model.countDocuments(filter)
CountDocuments(coll, f) == Cardinality(Find(coll, f))

\* The sort direction with its two cases swapped.
SortDir_Flipped(sortOrder) == IF sortOrder = Str(WordAsc) THEN -1 ELSE 1

\* the sort object (lines 105-107): 1 only for sortOrder 'asc'
SortDir(sortOrder) == IF sortOrder = Str(WordAsc) THEN 1 ELSE -1

\* the value a document is ordered by; a field no document has orders none
SortKey(d, sortBy) ==
  IF sortBy = Str(KeyCreatedAt) THEN d.createdAt
  ELSE IF sortBy = Str(KeyPrice) THEN d.price
  ELSE IF sortBy = Str(KeyQuantity) THEN d.quantity
  ELSE 0

\* .sort(sort): every arrangement of the documents in the order of the key;
\* the store promises no order among documents whose keys are equal.
RECURSIVE Sorted(_, _, _)
Sorted(S, sortBy, dir) ==
  IF S = {} THEN {<<>>}
  ELSE UNION { {<<d>> \o rest : rest \in Sorted(S \ {d}, sortBy, dir)} :
               d \in {e \in S : \A f \in S :
                        dir * SortKey(e, sortBy) <= dir * SortKey(f, sortBy)} }

\* A skip that counts pages from zero.
Skip_FromZero(pageNum, limitNum) == pageNum * limitNum

\* skip = (page - 1) * limit (lines 109-112)
Skip(pageNum, limitNum) == (pageNum - 1) * limitNum

\* .skip(skip).limit(limit) of a cursor: limit 0 is no limit, a negative
\* limit is its absolute value
Window(arr, skip, limit) ==
  LET n == IF limit = 0 THEN Len(arr) ELSE IF limit < 0 THEN 0 - limit ELSE limit
      last == IF skip + n < Len(arr) THEN skip + n ELSE Len(arr)
  IN  SubSeq(arr, skip + 1, last)

\* Math.ceil(total / limit); a division by zero is Infinity or NaN, which
\* JSON writes as null
CeilDiv(a, b) == IF b > 0 THEN 0 - ((0 - a) \div b) ELSE 0 - (a \div (0 - b))
TotalPages(total, limit) == IF limit = 0 THEN NullDoc ELSE Num(CeilDiv(total, limit))

ListFailure == Reply("list", 500, Failure("Failed to fetch products"))

\* lines 39-118: the filter, the sort, the page, and the first store call,
\* Product.find(filter).sort(sort).skip(skip).limit(limitNum).  The request
\* then waits to issue its second store call.
getProductsFind(q) ==
  LET p == Destructure(q)
      f == BuildFilter(p)
      pageNum == Number(p.page)
      limitNum == Number(p.limit)
  IN  /\ listReq.t = "none"
      /\ acks' = NoAcks
      /\ UNCHANGED <<store, nextId, clock, deleted>>
      /\ IF \/ ~FilterCasts(f)
            \/ pageNum.t = "NaN" \/ limitNum.t = "NaN"
            \/ Skip(pageNum.v, limitNum.v) < 0
         THEN /\ resp' = ListFailure
              /\ listReq' = listReq
         ELSE /\ \E arr \in Sorted(Find(store, f), p.sortBy, SortDir(p.sortOrder)) :
                   listReq' = [t |-> "counting", query |-> q, filter |-> f,
                               page |-> pageNum.v, limit |-> limitNum.v,
                               skip |-> Skip(pageNum.v, limitNum.v),
                               products |-> Window(arr, Skip(pageNum.v, limitNum.v),
                                                   limitNum.v),
                               interleaved |-> FALSE]
              /\ resp' = NoResp

\* lines 120-132: the second store call, Product.countDocuments(filter), and
\* the response
getProductsCount ==
  /\ listReq.t = "counting"
  /\ LET total == CountDocuments(store, listReq.filter)
     IN  resp' = [op |-> "list", status |-> 200,
                  query |-> listReq.query, interleaved |-> listReq.interleaved,
                  body |-> [status |-> "success",
                            results |-> Len(listReq.products),
                            total |-> total,
                            page |-> listReq.page,
                            limit |-> listReq.limit,
                            totalPages |-> TotalPages(total, listReq.limit),
                            data |-> listReq.products]]
  /\ listReq' = [t |-> "none"]
  /\ UNCHANGED <<store, nextId, clock, deleted, acks>>

\* Time passes between requests.
Tick ==
  /\ clock < MaxClock
  /\ clock' = clock + 1
  /\ UNCHANGED <<store, nextId, deleted, acks, listReq, resp>>

(***************************************************************************)
(* The requests explored.                                                  *)
(***************************************************************************)
Chars(c, n) == [k \in 1..n |-> c]

ValidA ==
  [NoBody EXCEPT !.name = Str(<<"a">>), !.description = Str(<<"d">>),
                 !.price = Num(1), !.category = Str(<<"x">>), !.quantity = Num(2)]
\* padded strings, inStock false, quantity left to its default
ValidB ==
  [NoBody EXCEPT !.name = Str(<<" ", "b">>), !.description = Str(<<"d", " ">>),
                 !.price = Num(2), !.category = Str(<<"y">>), !.inStock = Bool(FALSE)]

InvalidBodies ==
  { [NoBody EXCEPT !.name = Str(<<>>)],
    [ValidA EXCEPT !.name = Str(<<" ">>)],
    [ValidA EXCEPT !.name = Str(Chars("n", NameMaxLength + 1))],
    [ValidA EXCEPT !.price = Num(-1)],
    [ValidA EXCEPT !.price = Str(<<"f", "r", "e", "e">>)],
    [ValidA EXCEPT !.quantity = Num(-1)],
    [ValidA EXCEPT !.category = Undef] }

\* bodies that carry the system-managed fields; the _id of a body is one the
\* client has seen in a response, or no ObjectId at all
SystemFieldBodies(seen) ==
  { [ValidA EXCEPT !._id = Num(i)] : i \in seen \cup {BadId} }
  \cup { [ValidA EXCEPT !.createdAt = Num(FutureDate)],
         [ValidA EXCEPT !.updatedAt = Num(FutureDate)] }

ClientUpdates ==
  { NoBody,
    [NoBody EXCEPT !.price = Num(2)],
    [NoBody EXCEPT !.name = Str(<<"b", " ">>), !.inStock = Bool(FALSE)],
    [NoBody EXCEPT !.price = Num(-1)],
    [NoBody EXCEPT !.name = Str(<<" ">>)],
    [NoBody EXCEPT !.quantity = Str(<<"n">>)] }

SystemFieldUpdates ==
  { [NoBody EXCEPT !.price = Num(2)],
    [NoBody EXCEPT !._id = Num(ForeignId)],
    [NoBody EXCEPT !.createdAt = Num(0), !.updatedAt = Num(0)],
    [NoBody EXCEPT !["$inc"] = Obj([price |-> -2])] }

Init ==
  /\ store = {}
  /\ nextId = 1
  /\ clock = 0
  /\ deleted = {}
  /\ acks = NoAcks
  /\ listReq = [t |-> "none"]
  /\ resp = NoResp

\* Requests whose bodies carry client fields only, all at one instant.
Create ==
  \E b \in {ValidA, ValidB} \cup InvalidBodies :
    createProduct(b) /\ nextId' <= MaxIds + 1
GetById == \E id \in PathIds : getProductById(id)
Update == \E id \in PathIds, b \in ClientUpdates : updateProduct(id, b)
Delete == \E id \in PathIds : deleteProduct(id)

Next == Create \/ GetById \/ Update \/ Delete

Spec == Init /\ [][Next]_vars

\* Requests whose bodies also carry _id, the timestamps or an update operator,
\* with time passing between them.
CreateAny ==
  \E b \in {ValidA} \cup SystemFieldBodies(1..(nextId - 1)) :
    createProduct(b) /\ nextId' <= MaxIds + 1
UpdateAny == \E id \in ObjectIds, b \in SystemFieldUpdates : updateProduct(id, b)

NextAnyBody == Tick \/ CreateAny \/ GetById \/ UpdateAny \/ Delete

SpecAnyBody == Init /\ [][NextAnyBody]_vars

(***************************************************************************)
(* Runs that list the collection.                                          *)
(***************************************************************************)
Opt(values) == {Undef} \cup {Str(v) : v \in values}

FilterQueries ==
  { [NoQuery EXCEPT !.category = c, !.inStock = s, !.minPrice = lo,
                    !.maxPrice = hi, !.minQuantity = qlo, !.maxQuantity = qhi] :
      c \in Opt({<<>>, <<"x">>}),
      s \in Opt({WordTrue, <<"n", "o">>}),
      lo \in Opt({<<"2">>}),
      hi \in Opt({<<"1">>}),
      qlo \in Opt({<<"2">>}),
      qhi \in Opt({<<"0">>}) }

PageQueries ==
  { [NoQuery EXCEPT !.page = pg, !.limit = lim, !.category = c] :
      pg \in Opt({<<"0">>, <<"2">>, <<"3">>}),
      lim \in Opt({<<"0">>, <<"1">>, <<"2">>, <<"1", "0">>}),
      c \in Opt({<<"x">>}) }

CreateListed ==
  \E b \in {ValidA, ValidB} : createProduct(b) /\ nextId' <= MaxIds + 1
ListFiltered == \E q \in FilterQueries : getProductsFind(q)
ListPaged == \E q \in PageQueries : getProductsFind(q)

NextFilter == CreateListed \/ ListFiltered \/ getProductsCount
SpecFilter == Init /\ [][NextFilter]_vars

NextPage == CreateListed \/ ListPaged \/ getProductsCount
SpecPage == Init /\ [][NextPage]_vars

\* One create per tick, up to MaxListed records, listed with no parameters.
CreateSpaced ==
  /\ \A d \in store : d.createdAt # clock
  /\ createProduct(ValidA)
  /\ nextId' <= MaxListed + 1
TickSpaced ==
  /\ \E d \in store : d.createdAt = clock
  /\ clock' = clock + 1
  /\ UNCHANGED <<store, nextId, deleted, acks, listReq, resp>>
ListDefault == getProductsFind(NoQuery)

NextDefault == CreateSpaced \/ TickSpaced \/ ListDefault \/ getProductsCount
SpecDefault == Init /\ [][NextDefault]_vars

\* Requests of every handler that reach every class of outcome: success, a
\* validation failure, a cast failure, a missing record, another store error.
StatusBodies(seen) ==
  { ValidA,
    [NoBody EXCEPT !.name = Str(<<>>)],
    [ValidA EXCEPT !._id = Num(BadId)] }
  \cup { [ValidA EXCEPT !._id = Num(i)] : i \in seen }
StatusUpdates ==
  { [NoBody EXCEPT !.price = Num(2)],
    [NoBody EXCEPT !.price = Num(-1)],
    [NoBody EXCEPT !.quantity = Str(<<"n">>)],
    [NoBody EXCEPT !._id = Num(ForeignId)] }
StatusQueries ==
  { NoQuery,
    [NoQuery EXCEPT !.page = Str(<<"0">>)],
    [NoQuery EXCEPT !.minPrice = Str(<<"n">>)] }

\* The requests are served one at a time: none starts while a listing waits
\* for its count.
Idle == listReq.t = "none"
CreateStatus ==
  \E b \in StatusBodies(1..(nextId - 1)) :
    Idle /\ createProduct(b) /\ nextId' <= MaxIds + 1
GetByIdStatus == \E id \in PathIds : Idle /\ getProductById(id)
UpdateStatus == \E id \in PathIds, b \in StatusUpdates : Idle /\ updateProduct(id, b)
DeleteStatus == \E id \in PathIds : Idle /\ deleteProduct(id)
ListStatus == \E q \in StatusQueries : getProductsFind(q)

NextStatus ==
  \/ CreateStatus \/ GetByIdStatus \/ UpdateStatus \/ DeleteStatus
  \/ ListStatus \/ getProductsCount
SpecStatus == Init /\ [][NextStatus]_vars

\* Update requests that race on one record.  findByIdAndUpdate is one
\* findOneAndUpdate command, which the store applies to a document atomically:
\* requests in flight together are applied one after the other, in either
\* order.  The two bodies both set price; each sets one field the other
\* leaves alone.
RaceFirst ==
  [NoBody EXCEPT !.price = Num(2), !.name = Str(<<"b">>)]
RaceSecond ==
  [NoBody EXCEPT !.price = Num(3), !.quantity = Num(5)]
RaceUpdates == {RaceFirst, RaceSecond}

CreateRace == createProduct(ValidA) /\ nextId' <= MaxIds + 1
UpdateRace == \E id \in ObjectIds, b \in RaceUpdates : updateProduct(id, b)

NextRace == Tick \/ CreateRace \/ UpdateRace
SpecRace == Init /\ [][NextRace]_vars

(***************************************************************************)
(* Properties of the requests on /:id.                                     *)
(***************************************************************************)
Ids(coll) == {d._id : d \in coll}

\* C1: once a DELETE on an id has responded 204, the record is gone and every
\* later GET on that id responds 404, whatever requests come in between: no
\* document of the collection carries an id a DELETE has acknowledged.
C1_DeletedStaysGone == \A i \in deleted : \A d \in store : d._id # i

\* C2: a DELETE on a well-formed id that matches no record (deleted before, or
\* never there) responds 404 and leaves the collection as it is, and in any
\* run of DELETE requests at most one per id responds 204.
C2_DeleteOnce ==
  /\ [](\A i \in ObjectIds : acks[i] <= 1)
  /\ [][\A id \in ObjectIds :
          (resp'.op = "delete" /\ deleteProduct(id) /\ id \notin Ids(store))
            => (resp'.status = 404 /\ store' = store)]_vars

\* C2 witness: a DELETE repeated right after its 204 has been answered 404.
C2_Witness ==
  /\ resp.op = "delete" /\ resp.status = 404
  /\ acks[resp.id] = 1 /\ resp.id \in deleted /\ store # {}

\* a body every path of which passes its cast and its validators
BodyIsValid(b) ==
  \A k \in SchemaPaths :
    LET v == ApplyDefaults([j \in BodyKeys |-> CastPath(j, b[j])])[k]
    IN  /\ v.t # "CastError"
        /\ k \in RequiredPaths => (v.t # "undefined" /\ v # Str(<<>>))
        /\ k = "name" => Len(v.v) <= NameMaxLength
        /\ k \in NumberPaths => v.v >= 0

\* C3: a create whose body is valid responds 201 with the stored record under
\* an id no record had, and the collection gains exactly that record; a
\* create whose body is invalid responds 400 with status 'error' and the
\* collection is unchanged.
C3_CreateValidOrRejected ==
  [][\A b \in {ValidA, ValidB} \cup InvalidBodies \cup SystemFieldBodies(ObjectIds) :
       createProduct(b) =>
         IF BodyIsValid(b)
         THEN /\ resp'.status = 201 /\ resp'.body.status = "success"
              /\ resp'.body.data._id \notin Ids(store)
              /\ store' = store \cup {resp'.body.data}
         ELSE /\ resp'.status = 400 /\ resp'.body.status = "error"
              /\ store' = store]_vars

\* the plain client fields a body sets, and whether all of them pass the
\* cast and the validators of their path
FieldsSet(b) == {k \in ClientFields : b[k] # Undef}
UpdateIsValid(b) ==
  \A k \in FieldsSet(b) :
    LET v == CastPath(k, b[k])
    IN  /\ v.t # "CastError"
        /\ k \in StringPaths /\ k \in RequiredPaths => v.v # <<>>
        /\ k = "name" => Len(v.v) <= NameMaxLength
        /\ k \in NumberPaths => v.v >= 0

\* C5 as stated: an update on a well-formed id with no matching record
\* responds 404 and leaves the collection unchanged, whatever its body.
C5_MissingIdIs404 ==
  [][\A id \in ObjectIds, b \in ClientUpdates :
       (resp'.op = "update" /\ updateProduct(id, b) /\ id \notin Ids(store))
         => (resp'.status = 404 /\ store' = store)]_vars

\* C5 amended: an update whose body sets valid values of some client fields
\* responds, on an existing id, 200 with the record after the update, in which
\* exactly those fields carry the (cast) new values, every other client field,
\* the id and createdAt are as before, and every other record is untouched;
\* on a well-formed id with no record it responds 404; a body that fails a
\* cast or a validator responds 400 on either; 404 and 400 change nothing.
C5_UpdateFrame ==
  [][\A id \in ObjectIds, b \in ClientUpdates :
       (resp'.op = "update" /\ resp'.id = id /\ updateProduct(id, b)) =>
         IF ~UpdateIsValid(b)
         THEN resp'.status = 400 /\ store' = store
         ELSE IF id \notin Ids(store)
         THEN resp'.status = 404 /\ store' = store
         ELSE \E old \in store, new \in store' :
                /\ old._id = id /\ new._id = id
                /\ resp'.status = 200 /\ resp'.body.data = new
                /\ \A k \in ClientFields :
                     new[k] = IF k \in FieldsSet(b) THEN CastPath(k, b[k]).v ELSE old[k]
                /\ new.createdAt = old.createdAt
                /\ store' \ {new} = store \ {old}]_vars

\* C5 witness: an update of the price alone has been answered 200 while
\* another record is stored.
C5_Witness ==
  /\ resp.op = "update" /\ resp.status = 200
  /\ resp.body.data.price = 2 /\ resp.body.data.name = <<"a">>
  /\ resp.body.data \in store /\ Cardinality(store) = 2

\* C6: a GET on an id responds 200 with exactly the record stored under that
\* id (right after the create that assigned the id: the record the create
\* returned), 404 for a well-formed id with no record, and never changes the
\* collection.
C6_GetById ==
  [][\A id \in ObjectIds :
       (resp'.op = "get" /\ resp'.id = id /\ getProductById(id)) =>
         /\ store' = store
         /\ IF id \in Ids(store)
            THEN /\ resp'.status = 200
                 /\ resp'.body.data \in store /\ resp'.body.data._id = id
            ELSE resp'.status = 404
         /\ (resp.op = "create" /\ resp.status = 201 /\ resp.body.data._id = id)
              => (resp'.status = 200 /\ resp'.body.data = resp.body.data)]_vars

\* C6 witness: a GET has returned the record of one of two stored ids.
C6_Witness ==
  /\ resp.op = "get" /\ resp.status = 200
  /\ resp.body.data \in store /\ Cardinality(store) = 2

\* C9: every stored record has price >= 0 and quantity >= 0.
C9_NonNegative == \A d \in store : d.price >= 0 /\ d.quantity >= 0

\* C10: every stored record has updatedAt >= createdAt, a createdAt the
\* system assigned (never later than the clock), and an id no other record
\* carries.
C10_SystemManaged ==
  /\ \A d \in store : d.updatedAt >= d.createdAt /\ d.createdAt <= clock
  /\ \A d, e \in store : d._id = e._id => d = e

(***************************************************************************)
(* Properties of the listing.                                              *)
(***************************************************************************)
Elems(seq) == {seq[k] : k \in 1..Len(seq)}
Min(a, b) == IF a < b THEN a ELSE b
Max(a, b) == IF a > b THEN a ELSE b
NoRepeats(seq) == Cardinality(Elems(seq)) = Len(seq)

\* the number a query parameter stands for, or its default when absent
ParamOr(v, default) == IF v = Undef THEN default ELSE Number(v).v

\* the conjunction of the supplied filters, a parameter being supplied when
\* it is present (category: when it is present and not empty, if lenient)
Satisfies(d, q, lenient) ==
  /\ (q.category # Undef /\ (lenient => q.category.v # <<>>))
       => d.category = q.category.v
  /\ q.inStock # Undef => (d.inStock <=> (q.inStock.v = WordTrue))
  /\ q.minPrice # Undef => Number(q.minPrice).v <= d.price
  /\ q.maxPrice # Undef => d.price <= Number(q.maxPrice).v
  /\ q.minQuantity # Undef => Number(q.minQuantity).v <= d.quantity
  /\ q.maxQuantity # Undef => d.quantity <= Number(q.maxQuantity).v

\* the step of a listing's first store call, and of its second
FindStep == listReq.t = "none" /\ listReq'.t = "counting"
CountStep == listReq.t = "counting" /\ listReq'.t = "none"

FilterHolds(lenient) ==
  /\ resp'.status # 500
  /\ FindStep =>
       Elems(listReq'.products) =
         {d \in store : Satisfies(d, listReq'.query, lenient)}
  /\ CountStep =>
       resp'.body.total =
         Cardinality({d \in store : Satisfies(d, listReq.query, lenient)})

DescendingByCreatedAt(seq) ==
  \A j, k \in 1..Len(seq) : j < k => seq[j].createdAt >= seq[k].createdAt

DefaultEnvelope(body) ==
  /\ body.page = 1 /\ body.limit = 10
  /\ body.results = Len(body.data)
  /\ DescendingByCreatedAt(body.data)

\* C7 as stated: a listing with no parameters (and no write while it runs)
\* responds 200 with all records of the store, sorted by createdAt
\* descending, page 1 and limit 10.
C7_DefaultListsAll ==
  [][(CountStep /\ listReq.query = NoQuery /\ ~listReq.interleaved)
       => /\ resp'.status = 200
          /\ DefaultEnvelope(resp'.body)
          /\ Elems(resp'.body.data) = store]_vars

\* C7 amended: a listing with no parameters responds 200 with page 1 and
\* limit 10 and the first page only: the min(10, N) most recently created of
\* the N stored records, sorted by createdAt descending; total reports the
\* number of records.
C7_DefaultListsFirstPage ==
  [][/\ (FindStep /\ listReq'.query = NoQuery) =>
          LET data == listReq'.products
          IN  /\ Len(data) = Min(10, Cardinality(store))
              /\ Elems(data) \subseteq store /\ NoRepeats(data)
              /\ \A d \in store \ Elems(data), e \in Elems(data) :
                   d.createdAt <= e.createdAt
     /\ (CountStep /\ listReq.query = NoQuery) =>
          /\ resp'.status = 200
          /\ DefaultEnvelope(resp'.body)
          /\ resp'.body.data = listReq.products
          /\ resp'.body.total = Cardinality(store)]_vars

\* C7 witness: the default listing of eleven records has returned ten.
C7_Witness ==
  /\ resp.op = "list" /\ resp.status = 200 /\ resp.query = NoQuery
  /\ resp.body.results = 10 /\ resp.body.total = 11 /\ ~resp.interleaved

\* what C8 says of a listing; totalPages is ceil(total / limit) for every
\* limit (always), or for every limit but 0, where it is null
PaginationHolds(always) ==
  /\ FindStep =>
       LET q == listReq'.query
           pg == ParamOr(q.page, 1)
           lim == ParamOr(q.limit, 10)
           matching == {d \in store : Satisfies(d, q, TRUE)}
           data == listReq'.products
           rest == Max(0, Cardinality(matching) - listReq'.skip)
       IN  /\ listReq'.skip = (pg - 1) * lim
           /\ Elems(data) \subseteq matching /\ NoRepeats(data)
           /\ Len(data) = IF lim = 0 THEN rest ELSE Min(lim, rest)
  /\ CountStep =>
       LET q == listReq.query
           pg == ParamOr(q.page, 1)
           lim == ParamOr(q.limit, 10)
           body == resp'.body
       IN  /\ resp'.status = 200
           /\ body.data = listReq.products
           /\ body.results = Len(body.data)
           /\ body.total = Cardinality({d \in store : Satisfies(d, q, TRUE)})
           /\ body.page = pg /\ body.limit = lim
           /\ IF lim > 0
              THEN /\ body.totalPages.t = "number"
                   /\ body.totalPages.v * lim >= body.total
                   /\ (body.totalPages.v - 1) * lim < body.total
              ELSE IF always THEN body.totalPages.t = "number"
                   ELSE body.totalPages = NullDoc
           /\ (~listReq.interleaved /\ pg >= 1 /\ lim >= 1) =>
                body.results = Min(lim, Max(0, body.total - (pg - 1) * lim))

\* C8 as stated: a listing with integer page and limit skips
\* (page - 1) * limit records and its 200 response reports data = the page of
\* the matching records, results = the length of data, total = the number of
\* matching records, page and limit as requested and, for every limit, a
\* number totalPages = ceil(total / limit); with no write between its two
\* store calls, page >= 1 and limit >= 1,
\* results = min(limit, max(0, total - skip)).
C8_TotalPagesAlways == [][PaginationHolds(TRUE)]_vars

\* C8 amended: the same, with totalPages = ceil(total / limit) for limit >= 1;
\* for limit = 0 the response carries every matching record from skip on and
\* totalPages is null.
C8_Pagination == [][PaginationHolds(FALSE)]_vars

\* C8 witness: the second page of size one of two matching records has been
\* returned, with totalPages 2.
C8_Witness ==
  /\ resp.op = "list" /\ resp.status = 200 /\ ~resp.interleaved
  /\ resp.body.page = 2 /\ resp.body.limit = 1
  /\ resp.body.total = 2 /\ resp.body.results = 1 /\ resp.body.totalPages = Num(2)

(***************************************************************************)
(* Properties of the requests as they interleave.                          *)
(***************************************************************************)
\* the pages a listing may return when its find runs on the collection coll
PagesOf(coll, req) ==
  LET p == Destructure(req.query)
  IN  {Window(arr, req.skip, req.limit) :
         arr \in Sorted(Find(coll, req.filter), p.sortBy, SortDir(p.sortOrder))}

\* C11: every request touches the store in one atomic call, so everything a
\* response reports was observed in one state of the store, also when other
\* requests write while it runs: the data of a listing's response is a page
\* of the collection its total was counted in.
C11_OneStoreState ==
  [][CountStep => resp'.body.data \in PagesOf(store, listReq)]_vars

\* C11 witness: a listing answered after a create landed between its find and
\* its count reports a total of one and no data.
C11_Witness ==
  /\ resp.op = "list" /\ resp.status = 200 /\ resp.interleaved
  /\ resp.query = NoQuery
  /\ resp.body.total = 1 /\ resp.body.results = 0 /\ resp.body.data = <<>>

(***************************************************************************)
(* Properties of the status codes.                                         *)
(***************************************************************************)
\* whether the store refuses a query: a bound, page or limit that is no
\* number, or a negative skip
QueryFails(q) ==
  \/ \E k \in {"minPrice", "maxPrice", "minQuantity", "maxQuantity", "page", "limit"} :
       q[k] # Undef /\ Number(q[k]).t = "NaN"
  \/ (ParamOr(q.page, 1) - 1) * ParamOr(q.limit, 10) < 0

\* whether every value an update body sets passes its cast and its validators
UpdateBodyPasses(b) ==
  /\ UpdateIsValid(b)
  /\ b._id # Undef => (b._id.t = "number" /\ b._id.v \in ObjectIds)

\* the status of an update: a missing record is a 404 whatever the body
\* (recordFirst), or only once the body has passed its casts and validators
UpdateStatusOf(id, b, coll, recordFirst) ==
  IF id = BadId THEN 400
  ELSE IF recordFirst /\ id \notin Ids(coll) THEN 404
  ELSE IF ~UpdateBodyPasses(b) THEN 400
  ELSE IF id \notin Ids(coll) THEN 404
  ELSE IF b._id # Undef /\ b._id.v # id THEN 500
  ELSE 200

\* what C12 says of one step: every handler answers its request with the
\* status of the request's class, and a listing is answered once, by its
\* count step or by the failure of its find
StatusHolds(recordFirst) ==
  /\ \A b \in StatusBodies(ObjectIds) :
       (resp'.op = "create" /\ createProduct(b)) =>
         resp'.status = IF ~BodyIsValid(b) THEN 400
                        ELSE IF b._id # Undef /\ b._id.v \in Ids(store) THEN 500
                        ELSE 201
  /\ \A id \in PathIds :
       (resp'.op = "get" /\ resp'.id = id /\ getProductById(id)) =>
         resp'.status = IF id = BadId THEN 400
                        ELSE IF id \notin Ids(store) THEN 404 ELSE 200
  /\ \A id \in PathIds, b \in StatusUpdates :
       (resp'.op = "update" /\ resp'.id = id /\ updateProduct(id, b)) =>
         resp'.status = UpdateStatusOf(id, b, store, recordFirst)
  /\ \A id \in PathIds :
       (resp'.op = "delete" /\ resp'.id = id /\ deleteProduct(id)) =>
         resp'.status = IF id = BadId THEN 400
                        ELSE IF id \notin Ids(store) THEN 404 ELSE 204
  /\ \A q \in StatusQueries :
       (listReq.t = "none" /\ resp'.op \in {"list", "none"} /\ getProductsFind(q)) =>
         IF QueryFails(q)
         THEN resp'.op = "list" /\ resp'.status = 500 /\ listReq'.t = "none"
         ELSE resp' = NoResp /\ listReq'.t = "counting"
  /\ CountStep => (resp'.op = "list" /\ resp'.status = 200)
  /\ resp' # resp =>
       \/ resp' = NoResp /\ FindStep
       \/ resp'.op = "create" /\ resp'.status \in {201, 400, 500}
       \/ resp'.op = "list" /\ resp'.status \in {200, 500}
       \/ resp'.op \in {"get", "update"} /\ resp'.status \in {200, 400, 404, 500}
       \/ resp'.op = "delete" /\ resp'.status \in {204, 400, 404, 500}

\* C12 as stated: validation failure -> 400, malformed id -> 400, a
\* well-formed id with no matching record -> 404 (whatever else the request
\* carries), any other store error -> 500, success -> 201 / 200 / 204, one
\* response per request and no other status.
C12_MissingRecordFirst == [][StatusHolds(TRUE)]_vars

\* C12 amended: the same, except that an update whose body fails a cast or a
\* validator is a 400 also when its well-formed id matches no record; the 404
\* of an update is for bodies that pass.
C12_Classified == [][StatusHolds(FALSE)]_vars

\* C12 witness: an update with a negative price on a well-formed id that
\* matches no record has been answered 400.
C12_Witness ==
  /\ resp.op = "update" /\ resp.status = 400
  /\ resp.id \in ObjectIds /\ resp.id \notin Ids(store)
  /\ resp.body.message = "Validation Error" /\ store # {}

(***************************************************************************)
(* Properties of updates that race.                                        *)
(***************************************************************************)
\* the client fields of a record after an update with body b: the fields b
\* sets carry b's values, the others are kept
Written(f, b) ==
  [k \in ClientFields |-> IF b[k] # Undef THEN b[k].v ELSE f[k]]

\* the client fields of the record every race starts from
CreatedFields == [k \in ClientFields |-> NewProduct(ValidA)[k].v]

\* the client fields a record can have after the racing updates have been
\* applied one after the other, in any order and any number of times
RECURSIVE SerialOutcomes(_)
SerialOutcomes(n) ==
  IF n = 0 THEN {CreatedFields}
  ELSE SerialOutcomes(n - 1)
       \cup {Written(f, b) : f \in SerialOutcomes(n - 1), b \in RaceUpdates}

ClientPart(d) == [k \in ClientFields |-> d[k]]

\* C13: updates that race on an existing record all respond 200, and the
\* last writer wins: right after the store applies an update, every field its
\* body sets has the body's value and the record is what the response
\* returns, and at all times the record is the result of applying the updates
\* in some serial order, with no field lost and no value mixed.
C13_LastWriterWins ==
  /\ [](\A d \in store : ClientPart(d) \in SerialOutcomes(Cardinality(RaceUpdates)))
  /\ [][\A id \in ObjectIds, b \in RaceUpdates :
          (resp'.op = "update" /\ resp'.id = id /\ updateProduct(id, b)
             /\ id \in Ids(store)) =>
            \E old \in store, new \in store' :
              /\ old._id = id /\ new._id = id
              /\ resp'.status = 200 /\ resp'.body.data = new
              /\ ClientPart(new) = Written(ClientPart(old), b)
              /\ new.updatedAt = clock /\ new.createdAt = old.createdAt
              /\ store' \ {new} = store \ {old}]_vars

\* C13 witness: two records have each taken both updates, one in each order:
\* the price of each is the one its last update wrote, and the name and the
\* quantity written by the two updates are both there.
C13_Witness ==
  /\ resp.op = "update" /\ resp.status = 200
  /\ \E d, e \in store :
       /\ ClientPart(d) = Written(Written(CreatedFields, RaceFirst), RaceSecond)
       /\ ClientPart(e) = Written(Written(CreatedFields, RaceSecond), RaceFirst)
       /\ d.price = 3 /\ e.price = 2 /\ d.name = e.name /\ d.quantity = e.quantity

(***************************************************************************)
(* Properties of the pages of one listing.                                 *)
(***************************************************************************)
\* the listing answered last ran on the collection as it is now and asked
\* what the listing now starting asks, for another page
OtherPageOfSame ==
  /\ FindStep
  /\ resp.op = "list" /\ resp.status = 200 /\ ~resp.interleaved
  /\ [resp.query EXCEPT !.page = Undef] = [listReq'.query EXCEPT !.page = Undef]
  /\ resp.body.page # listReq'.page
  /\ resp.body.page >= 1 /\ listReq'.page >= 1 /\ listReq'.limit >= 1

\* C14: on a collection that does not change, the pages of one filter, sort
\* and limit >= 1 are pairwise disjoint, two pages that cover the matching
\* records hold each of them once, an earlier page holds nothing that sorts
\* after a record of a later page, and a page beyond totalPages is empty;
\* also when records share the value of the sort field.
C14_PagesPartition ==
  [][/\ OtherPageOfSame =>
          LET before == resp.body.data
              now == listReq'.products
              matching == Find(store, listReq'.filter)
          IN  /\ Elems(before) \cap Elems(now) = {}
              /\ (resp.body.limit * 2 >= Cardinality(matching)
                    /\ {resp.body.page, listReq'.page} = {1, 2})
                   => Elems(before) \cup Elems(now) = matching
              /\ \A d \in Elems(before), e \in Elems(now) :
                   resp.body.page < listReq'.page => d.createdAt >= e.createdAt
     /\ (FindStep /\ listReq'.limit >= 1 /\ listReq'.page >= 1
           /\ listReq'.skip >= Cardinality(Find(store, listReq'.filter)))
          => listReq'.products = <<>>]_vars

====
